---------------------------- MODULE Spec2Model ----------------------------
(***************************************************************************)
(* Model of scripts/evaluate_detection.py: the interval lookup             *)
(* (build_interval_lookup, is_subtitle_timestamp), the evaluation pass     *)
(* (evaluate), the derived ratios of Metrics and the reporting step        *)
(* (print_report), driven as main() drives them.                           *)
(*                                                                         *)
(* Timestamps are Python floats in the source.  The code only compares     *)
(* them (<, <=) and never does arithmetic on them, so they are modelled as *)
(* integers of a small range; "one unit" is 1.  The ratios are true        *)
(* divisions of small integers; they are modelled as exact fractions       *)
(* num/den, and None as a value with defined = FALSE.                      *)
(***************************************************************************)
EXTENDS Integers, Sequences, FiniteSets

VARIABLES
    pc,          \* position in main() / in the caller of the library functions
    detections,  \* List[Detection] (parse_detection_json's first result)
    skipped,     \* int            (parse_detection_json's second result)
    intervals,   \* List[SubtitleInterval]
    lookup,      \* (intervals, starts) as returned by build_interval_lookup
    metrics,     \* the Metrics object
    report,      \* the five ratios as print_report reads them
    timestamp,   \* argument of the last is_subtitle_timestamp call
    answer       \* result of the last is_subtitle_timestamp call

vars == <<pc, detections, skipped, intervals, lookup, metrics, report,
          timestamp, answer>>

---------------------------------------------------------------------------
(* Bounds of the model *)

MaxTime == 2

MaxIntervals == 2

MaxEntries == 2

MaxCount == 1

Times == 0..MaxTime

\* query points: every modelled time, one unit below the least and one unit
\* above the greatest
Probes == (0 - 1)..(MaxTime + 1)

SeqsUpTo(S, n) == UNION {[1..k -> S] : k \in 0..n}

---------------------------------------------------------------------------
(* Data types *)

Detection(t, p) == [timestamp |-> t, predicted |-> p]

SubtitleInterval(s, e) == [start |-> s, end |-> e]

\* contains with the end excluded (start <= t < end)
contains_half_open(interval, t) == interval.start <= t /\ t < interval.end

\* SubtitleInterval.contains
contains(interval, t) == interval.start <= t /\ t <= interval.end

Metrics(ef, sk, sf, nsf, tp, tn, fp, fn) ==
    [evaluated_frames |-> ef, skipped_frames |-> sk,
     subtitle_frames |-> sf, non_subtitle_frames |-> nsf,
     true_positive |-> tp, true_negative |-> tn,
     false_positive |-> fp, false_negative |-> fn]

\* value of the metrics variable while no Metrics object exists
NoMetrics == Metrics(0, 0, 0, 0, 0, 0, 0, 0)

\* Optional[float]: None, or the fraction num/den
None == [defined |-> FALSE, num |-> 0, den |-> 1]

Value(n, d) == [defined |-> TRUE, num |-> n, den |-> d]

NoReport == [accuracy |-> None, error_rate |-> None, precision |-> None,
             recall |-> None, f1 |-> None]

---------------------------------------------------------------------------
(* parse_detection_json *)

\* one element of the JSON array: an entry with a numeric timestamp_seconds,
\* or anything else (not a dict, timestamp missing or not a number)
BadEntry == [valid |-> FALSE, timestamp |-> 0, predicted |-> FALSE]

JsonEntries ==
    {BadEntry} \cup
    {[valid |-> TRUE, timestamp |-> t, predicted |-> p] : t \in Times, p \in BOOLEAN}

RECURSIVE ValidDetections(_)
ValidDetections(data) ==
    IF data = <<>> THEN <<>>
    ELSE LET e == Head(data)
         IN  IF e.valid
             THEN <<Detection(e.timestamp, e.predicted)>> \o ValidDetections(Tail(data))
             ELSE ValidDetections(Tail(data))

RECURSIVE SkippedCount(_)
SkippedCount(data) ==
    IF data = <<>> THEN 0
    ELSE (IF Head(data).valid THEN 0 ELSE 1) + SkippedCount(Tail(data))

\* list.sort(key=lambda d: d.timestamp): stable
RECURSIVE InsertByTimestamp(_, _)
InsertByTimestamp(sorted, d) ==
    IF sorted = <<>> THEN <<d>>
    ELSE IF sorted[Len(sorted)].timestamp <= d.timestamp
         THEN Append(sorted, d)
         ELSE Append(InsertByTimestamp(SubSeq(sorted, 1, Len(sorted) - 1), d),
                     sorted[Len(sorted)])

RECURSIVE SortByTimestamp(_)
SortByTimestamp(s) ==
    IF s = <<>> THEN <<>>
    ELSE InsertByTimestamp(SortByTimestamp(SubSeq(s, 1, Len(s) - 1)), s[Len(s)])

---------------------------------------------------------------------------
(* parse_srt *)

\* a time-range line "a --> b" of the SRT file; reversed lines are swapped
SrtLine(a, b) == IF b < a THEN SubtitleInterval(b, a) ELSE SubtitleInterval(a, b)

\* list.sort(key=lambda interval: interval.start): stable
RECURSIVE InsertByStart(_, _)
InsertByStart(sorted, x) ==
    IF sorted = <<>> THEN <<x>>
    ELSE IF sorted[Len(sorted)].start <= x.start
         THEN Append(sorted, x)
         ELSE Append(InsertByStart(SubSeq(sorted, 1, Len(sorted) - 1), x),
                     sorted[Len(sorted)])

RECURSIVE SortByStart(_)
SortByStart(s) ==
    IF s = <<>> THEN <<>>
    ELSE InsertByStart(SortByStart(SubSeq(s, 1, Len(s) - 1)), s[Len(s)])

---------------------------------------------------------------------------
(* build_interval_lookup, is_subtitle_timestamp *)

build_interval_lookup(ivs) ==
    [intervals |-> ivs, starts |-> [k \in 1..Len(ivs) |-> ivs[k].start]]

\* bisect.bisect_right(a, x), 0-based insertion point: the loop
\*   while lo < hi: mid = (lo + hi) // 2
\*                  if x < a[mid]: hi = mid  else: lo = mid + 1
\* (a is 1-based here, so a[mid] of the source is a[mid + 1])
RECURSIVE bisect_loop(_, _, _, _)
bisect_loop(a, x, lo, hi) ==
    IF lo < hi
    THEN LET mid == (lo + hi) \div 2
         IN  IF x < a[mid + 1]
             THEN bisect_loop(a, x, lo, mid)
             ELSE bisect_loop(a, x, mid + 1, hi)
    ELSE lo

\* the left-biased search: an x equal to a start lands before it
RECURSIVE bisect_left_loop(_, _, _, _)
bisect_left_loop(a, x, lo, hi) ==
    IF lo < hi
    THEN LET mid == (lo + hi) \div 2
         IN  IF a[mid + 1] < x
             THEN bisect_left_loop(a, x, mid + 1, hi)
             ELSE bisect_left_loop(a, x, lo, mid)
    ELSE lo

bisect_left(a, x) == bisect_left_loop(a, x, 0, Len(a))

bisect_right(a, x) == bisect_loop(a, x, 0, Len(a))

\* the lookup with `idx > 0` for `idx >= 0`: the first interval never matches
is_subtitle_timestamp_idx_gt0(t, lk) ==
    LET idx == bisect_right(lk.starts, t) - 1
    IN  IF idx > 0
        THEN contains(lk.intervals[idx + 1], t)
        ELSE FALSE

is_subtitle_timestamp(t, lk) ==
    LET idx == bisect_right(lk.starts, t) - 1
    IN  IF idx >= 0
        THEN contains(lk.intervals[idx + 1], t)
        ELSE FALSE

---------------------------------------------------------------------------
(* evaluate *)

\* the local counters of evaluate before the loop
ZeroCounters ==
    [subtitle_frames |-> 0, non_subtitle_frames |-> 0,
     tp |-> 0, tn |-> 0, fp |-> 0, fn |-> 0]

\* truth of one detection: `... if intervals else False`
truth_of(detection, ivs, lk) ==
    IF ivs # <<>> THEN is_subtitle_timestamp(detection.timestamp, lk) ELSE FALSE

\* the iteration with the `else:` of `if detection.predicted` lost, so that
\* the fn/tn branch runs for every detection
loop_body_no_else(acc, detection, ivs, lk) ==
    LET truth == truth_of(detection, ivs, lk)
        a1 == IF truth
              THEN [acc EXCEPT !.subtitle_frames = @ + 1]
              ELSE [acc EXCEPT !.non_subtitle_frames = @ + 1]
        a2 == IF detection.predicted
              THEN IF truth THEN [a1 EXCEPT !.tp = @ + 1] ELSE [a1 EXCEPT !.fp = @ + 1]
              ELSE a1
    IN  IF truth THEN [a2 EXCEPT !.fn = @ + 1] ELSE [a2 EXCEPT !.tn = @ + 1]

\* the iteration with the ground-truth tallies keyed on detection.predicted
loop_body_tally_by_prediction(acc, detection, ivs, lk) ==
    LET truth == truth_of(detection, ivs, lk)
        a1 == IF detection.predicted
              THEN [acc EXCEPT !.subtitle_frames = @ + 1]
              ELSE [acc EXCEPT !.non_subtitle_frames = @ + 1]
    IN  IF detection.predicted
        THEN IF truth THEN [a1 EXCEPT !.tp = @ + 1] ELSE [a1 EXCEPT !.fp = @ + 1]
        ELSE IF truth THEN [a1 EXCEPT !.fn = @ + 1] ELSE [a1 EXCEPT !.tn = @ + 1]

\* the iteration with fp and fn exchanged
loop_body_swapped(acc, detection, ivs, lk) ==
    LET truth == truth_of(detection, ivs, lk)
        a1 == IF truth
              THEN [acc EXCEPT !.subtitle_frames = @ + 1]
              ELSE [acc EXCEPT !.non_subtitle_frames = @ + 1]
    IN  IF detection.predicted
        THEN IF truth THEN [a1 EXCEPT !.tp = @ + 1] ELSE [a1 EXCEPT !.fn = @ + 1]
        ELSE IF truth THEN [a1 EXCEPT !.fp = @ + 1] ELSE [a1 EXCEPT !.tn = @ + 1]

\* one iteration of `for detection in detections`
loop_body(acc, detection, ivs, lk) ==
    LET truth == truth_of(detection, ivs, lk)
        a1 == IF truth
              THEN [acc EXCEPT !.subtitle_frames = @ + 1]
              ELSE [acc EXCEPT !.non_subtitle_frames = @ + 1]
    IN  IF detection.predicted
        THEN IF truth THEN [a1 EXCEPT !.tp = @ + 1] ELSE [a1 EXCEPT !.fp = @ + 1]
        ELSE IF truth THEN [a1 EXCEPT !.fn = @ + 1] ELSE [a1 EXCEPT !.tn = @ + 1]

\* the loop over detections[1:]: the first detection is never classified
RECURSIVE loop_rest(_, _, _, _)
loop_rest(acc, dets, ivs, lk) ==
    IF dets = <<>> THEN acc
    ELSE loop_rest(loop_body(acc, Head(dets), ivs, lk), Tail(dets), ivs, lk)

loop_skip_first(acc, dets, ivs, lk) ==
    IF dets = <<>> THEN acc ELSE loop_rest(acc, Tail(dets), ivs, lk)

\* the whole loop over detections, in order
RECURSIVE loop(_, _, _, _)
loop(acc, dets, ivs, lk) ==
    IF dets = <<>> THEN acc
    ELSE loop(loop_body(acc, Head(dets), ivs, lk), Tail(dets), ivs, lk)

evaluate(dets, ivs) ==
    LET lk  == build_interval_lookup(ivs)
        acc == loop(ZeroCounters, dets, ivs, lk)
    IN  Metrics(Len(dets), 0, acc.subtitle_frames, acc.non_subtitle_frames,
                acc.tp, acc.tn, acc.fp, acc.fn)

---------------------------------------------------------------------------
(* Metrics: the derived ratios *)

accuracy(m) ==
    LET total == m.evaluated_frames
    IN  IF total = 0 THEN None
        ELSE Value(m.true_positive + m.true_negative, total)

error_rate(m) ==
    LET acc == accuracy(m)
    IN  IF ~acc.defined THEN None
        ELSE Value(acc.den - acc.num, acc.den)

\* precision testing the numerator for the denominator
precision_none_without_tp(m) ==
    LET denom == m.true_positive + m.false_positive
    IN  IF m.true_positive = 0 THEN None
        ELSE Value(m.true_positive, denom)

precision(m) ==
    LET denom == m.true_positive + m.false_positive
    IN  IF denom = 0 THEN None
        ELSE Value(m.true_positive, denom)

recall(m) ==
    LET denom == m.true_positive + m.false_negative
    IN  IF denom = 0 THEN None
        ELSE Value(m.true_positive, denom)

\* p + r == 0 for fractions with positive denominators
SumIsZero(p, r) == p.num * r.den + r.num * p.den = 0

\* 2 * p * r / (p + r) = 2ac / (ad + cb) for p = a/b, r = c/d
f1(m) ==
    LET p == precision(m)
        r == recall(m)
    IN  IF ~p.defined \/ ~r.defined THEN None
        ELSE IF SumIsZero(p, r) THEN None
        ELSE Value(2 * p.num * r.num, p.num * r.den + r.num * p.den)

---------------------------------------------------------------------------
(* main(): parse_detection_json; parse_srt; evaluate; print_report *)

Init ==
    /\ pc = "main"
    /\ detections = <<>>
    /\ skipped = 0
    /\ intervals = <<>>
    /\ lookup = build_interval_lookup(<<>>)
    /\ metrics = NoMetrics
    /\ report = NoReport
    /\ timestamp = 0
    /\ answer = FALSE

\* detections, skipped = parse_detection_json(args.detected_json)
parse_detection_json ==
    /\ pc = "main"
    /\ \E data \in SeqsUpTo(JsonEntries, MaxEntries) :
          /\ detections' = SortByTimestamp(ValidDetections(data))
          /\ skipped' = SkippedCount(data)
    /\ pc' = "json_parsed"
    /\ UNCHANGED <<intervals, lookup, metrics, report, timestamp, answer>>

\* intervals = parse_srt(args.subtitle_srt)
parse_srt ==
    /\ pc = "json_parsed"
    /\ \E raw \in SeqsUpTo(Times \X Times, MaxIntervals) :
          intervals' = SortByStart([k \in 1..Len(raw) |-> SrtLine(raw[k][1], raw[k][2])])
    /\ pc' = "srt_parsed"
    /\ UNCHANGED <<detections, skipped, lookup, metrics, report, timestamp, answer>>

\* metrics = evaluate(detections, intervals)
call_evaluate ==
    /\ pc = "srt_parsed"
    /\ lookup' = build_interval_lookup(intervals)
    /\ metrics' = evaluate(detections, intervals)
    /\ pc' = "returned"
    /\ UNCHANGED <<detections, skipped, intervals, report, timestamp, answer>>

\* print_report(metrics, skipped)
print_report ==
    /\ pc = "returned"
    /\ metrics' = [metrics EXCEPT !.skipped_frames = skipped]
    /\ report' = [accuracy |-> accuracy(metrics'), error_rate |-> error_rate(metrics'),
                  precision |-> precision(metrics'), recall |-> recall(metrics'),
                  f1 |-> f1(metrics')]
    /\ pc' = "reported"
    /\ UNCHANGED <<detections, skipped, intervals, lookup, timestamp, answer>>

Next ==
    \/ parse_detection_json
    \/ parse_srt
    \/ call_evaluate
    \/ print_report

Spec == Init /\ [][Next]_vars

---------------------------------------------------------------------------
(* The lookup used as a library: a caller builds the lookup from a list of *)
(* intervals (start <= end, in any order) and queries it.                  *)

ValidIntervals == {SubtitleInterval(s, e) : s \in Times, e \in Times} \cap
                  {iv \in [start : Times, end : Times] : iv.start <= iv.end}

InitLookup ==
    /\ pc = "lookup_caller"
    /\ intervals \in SeqsUpTo(ValidIntervals, MaxIntervals)
    /\ detections = <<>>
    /\ skipped = 0
    /\ lookup = build_interval_lookup(<<>>)
    /\ metrics = NoMetrics
    /\ report = NoReport
    /\ timestamp = 0
    /\ answer = FALSE

\* lookup = build_interval_lookup(intervals)
call_build_interval_lookup ==
    /\ pc = "lookup_caller"
    /\ lookup' = build_interval_lookup(intervals)
    /\ pc' = "lookup_built"
    /\ UNCHANGED <<detections, skipped, intervals, metrics, report, timestamp, answer>>

\* answer = is_subtitle_timestamp(t, lookup)
call_is_subtitle_timestamp ==
    /\ pc \in {"lookup_built", "lookup_queried"}
    /\ \E t \in Probes :
          /\ timestamp' = t
          /\ answer' = is_subtitle_timestamp(t, lookup)
    /\ pc' = "lookup_queried"
    /\ UNCHANGED <<detections, skipped, intervals, lookup, metrics, report>>

NextLookup ==
    \/ call_build_interval_lookup
    \/ call_is_subtitle_timestamp

SpecLookup == InitLookup /\ [][NextLookup]_vars

---------------------------------------------------------------------------
(* Metrics used as a library: a caller constructs any Metrics value and    *)
(* hands it to print_report, which reads the five ratios.                  *)

Counts == 0..MaxCount

InitMetrics ==
    /\ pc = "returned"
    /\ metrics \in [evaluated_frames : Counts, skipped_frames : Counts,
                    subtitle_frames : Counts, non_subtitle_frames : Counts,
                    true_positive : Counts, true_negative : Counts,
                    false_positive : Counts, false_negative : Counts]
    /\ skipped \in Counts
    /\ detections = <<>>
    /\ intervals = <<>>
    /\ lookup = build_interval_lookup(<<>>)
    /\ report = NoReport
    /\ timestamp = 0
    /\ answer = FALSE

NextMetrics == print_report

SpecMetrics == InitMetrics /\ [][NextMetrics]_vars

---------------------------------------------------------------------------
(* Vocabulary of the properties *)

\* every reordering of the sequence s
Orders(s) ==
    LET n == Len(s)
        P == {f \in [1..n -> 1..n] : \A i, j \in 1..n : f[i] = f[j] => i = j}
    IN  {[k \in 1..n |-> s[f[k]]] : f \in P}

\* the sequence s back to front
Reverse(s) == [k \in 1..Len(s) |-> s[Len(s) + 1 - k]]

\* the sub-sequence of s at the positions k with keep[k] = want, in order
RECURSIVE Pick(_, _, _)
Pick(s, keep, want) ==
    IF s = <<>> THEN <<>>
    ELSE LET n    == Len(s)
             rest == Pick(SubSeq(s, 1, n - 1), keep, want)
         IN  IF keep[n] = want THEN Append(rest, s[n]) ELSE rest

\* the reference membership test: a scan testing start <= t <= end against
\* every interval of the list
LinearScan(t, ivs) ==
    \E k \in 1..Len(ivs) : ivs[k].start <= t /\ t <= ivs[k].end

SortedByStart(ivs) ==
    \A i, j \in 1..Len(ivs) : i < j => ivs[i].start <= ivs[j].start

NonOverlapping(ivs) ==
    \A i, j \in 1..Len(ivs) :
        i # j => (ivs[i].end < ivs[j].start \/ ivs[j].end < ivs[i].start)

\* no interval ends after a later interval of the list ends
EndsAscending(ivs) ==
    \A i, j \in 1..Len(ivs) : i < j => ivs[i].end <= ivs[j].end

Returned == pc \in {"returned", "reported"}

LookupBuilt == pc \in {"lookup_built", "lookup_queried"}

\* field-wise addition of two Metrics
AddMetrics(a, b) ==
    Metrics(a.evaluated_frames + b.evaluated_frames,
            a.skipped_frames + b.skipped_frames,
            a.subtitle_frames + b.subtitle_frames,
            a.non_subtitle_frames + b.non_subtitle_frames,
            a.true_positive + b.true_positive,
            a.true_negative + b.true_negative,
            a.false_positive + b.false_positive,
            a.false_negative + b.false_negative)

ConfusionSum(m) ==
    m.true_positive + m.true_negative + m.false_positive + m.false_negative

---------------------------------------------------------------------------
(* C1: for a list of pairwise non-overlapping intervals sorted ascending   *)
(* by start (the empty list included) and every timestamp, the answer of   *)
(* is_subtitle_timestamp on the built lookup equals the linear scan of the *)
(* list; on the empty list the answer is false.                            *)
C1_AgreesWithLinearScan ==
    (pc = "lookup_queried" /\ SortedByStart(intervals) /\ NonOverlapping(intervals))
        => /\ answer = LinearScan(timestamp, intervals)
           /\ (intervals = <<>> => answer = FALSE)

C1_Witness ==
    /\ pc = "lookup_queried"
    /\ Len(intervals) = 2
    /\ SortedByStart(intervals)
    /\ NonOverlapping(intervals)
    /\ timestamp = intervals[2].start
    /\ answer = TRUE

(* C2: after evaluate, TP + TN + FP + FN = evaluated_frames = the number   *)
(* of detections passed in (and still so after reporting); also for the    *)
(* same detections passed in any other order with the intervals passed     *)
(* back to front.                                                          *)
C2_ConfusionSumsToEvaluated ==
    /\ Returned =>
          /\ ConfusionSum(metrics) = metrics.evaluated_frames
          /\ metrics.evaluated_frames = Len(detections)
    /\ pc = "returned" =>
          \A ds \in Orders(detections) :
              LET m == evaluate(ds, Reverse(intervals))
              IN  ConfusionSum(m) = m.evaluated_frames /\ m.evaluated_frames = Len(ds)

C2_Witness ==
    /\ pc = "returned"
    /\ Len(detections) = 2
    /\ metrics.true_positive = 1
    /\ metrics.false_positive = 1

(* C3: after evaluate, subtitle_frames = TP + FN and non_subtitle_frames = *)
(* TN + FP, and the two tallies do not change when the predicted flags of  *)
(* the detections are replaced by any others.                              *)
C3_GroundTruthTallies ==
    /\ Returned =>
          /\ metrics.subtitle_frames = metrics.true_positive + metrics.false_negative
          /\ metrics.non_subtitle_frames = metrics.true_negative + metrics.false_positive
    /\ pc = "returned" =>
          \A flags \in [1..Len(detections) -> BOOLEAN] :
              LET ds == [k \in 1..Len(detections) |->
                            Detection(detections[k].timestamp, flags[k])]
                  m  == evaluate(ds, intervals)
              IN  /\ m.subtitle_frames = metrics.subtitle_frames
                  /\ m.non_subtitle_frames = metrics.non_subtitle_frames
                  /\ m.subtitle_frames = m.true_positive + m.false_negative
                  /\ m.non_subtitle_frames = m.true_negative + m.false_positive

C3_Witness ==
    /\ pc = "returned"
    /\ metrics.subtitle_frames = 1
    /\ metrics.non_subtitle_frames = 1
    /\ metrics.false_negative = 1
    /\ metrics.false_positive = 1

(* C4: in the loop of evaluate, the k-th detection adds one to exactly one *)
(* of tp, tn, fp, fn and leaves the other three as they were; the counter  *)
(* is chosen by (predicted, truth), truth being the lookup's answer for    *)
(* the timestamp, or false when the interval list is empty.  The counters  *)
(* after the last detection are the ones returned.                         *)
C4_OneBucketPerDetection ==
    pc = "returned" =>
        /\ \A k \in 1..Len(detections) :
              LET before == loop(ZeroCounters, SubSeq(detections, 1, k - 1), intervals, lookup)
                  after  == loop(ZeroCounters, SubSeq(detections, 1, k), intervals, lookup)
                  d      == detections[k]
                  truth  == IF intervals = <<>> THEN FALSE
                            ELSE is_subtitle_timestamp(d.timestamp, lookup)
                  bucket == IF d.predicted
                            THEN (IF truth THEN "tp" ELSE "fp")
                            ELSE (IF truth THEN "fn" ELSE "tn")
              IN  \A c \in {"tp", "tn", "fp", "fn"} :
                      after[c] = before[c] + (IF c = bucket THEN 1 ELSE 0)
        /\ LET final == loop(ZeroCounters, detections, intervals, lookup)
           IN  /\ metrics.true_positive = final.tp
               /\ metrics.true_negative = final.tn
               /\ metrics.false_positive = final.fp
               /\ metrics.false_negative = final.fn

C4_Witness ==
    /\ pc = "returned"
    /\ Len(detections) = 2
    /\ intervals # <<>>
    /\ metrics.true_positive = 1
    /\ metrics.false_negative = 1

(* C5: building the lookup sorts its input, so that for intervals given   *)
(* in any order the starts array is ascending and position-wise the start  *)
(* of the interval at the same position, and every membership answer (and  *)
(* the Metrics of evaluate for any detection) is the one obtained for the  *)
(* same intervals sorted ascending by start.                               *)
C5_SortsOnBuild ==
    LookupBuilt =>
        /\ \A i, j \in 1..Len(lookup.starts) : i < j => lookup.starts[i] <= lookup.starts[j]
        /\ Len(lookup.starts) = Len(lookup.intervals)
        /\ \A k \in 1..Len(lookup.starts) : lookup.starts[k] = lookup.intervals[k].start
        /\ \A t \in Probes :
              /\ is_subtitle_timestamp(t, lookup)
                    = is_subtitle_timestamp(t, build_interval_lookup(SortByStart(intervals)))
              /\ \A p \in BOOLEAN :
                    evaluate(<<Detection(t, p)>>, intervals)
                        = evaluate(<<Detection(t, p)>>, SortByStart(intervals))

(* C6 as stated: for every list sorted by start, overlapping, nested and   *)
(* duplicate-start intervals allowed, if the interval with the largest     *)
(* start <= t (the rightmost among equal starts) does not contain t then   *)
(* no earlier interval contains t, and the answer is true iff t lies       *)
(* inside at least one interval.                                           *)
C6_AnySortedList ==
    (pc = "lookup_queried" /\ SortedByStart(intervals))
        => LET idx == bisect_right(lookup.starts, timestamp) - 1
           IN  /\ (idx >= 0 /\ ~contains(intervals[idx + 1], timestamp))
                     => \A j \in 1..idx : ~contains(intervals[j], timestamp)
               /\ answer = LinearScan(timestamp, intervals)

(* C6 amended: the same for every list sorted by start in which no         *)
(* interval ends after a later one ends (overlaps and duplicate starts     *)
(* allowed, an interval reaching beyond a later one excluded).             *)
C6_SortedEndsAscending ==
    (pc = "lookup_queried" /\ SortedByStart(intervals) /\ EndsAscending(intervals))
        => LET idx == bisect_right(lookup.starts, timestamp) - 1
           IN  /\ (idx >= 0 /\ ~contains(intervals[idx + 1], timestamp))
                     => \A j \in 1..idx : ~contains(intervals[j], timestamp)
               /\ answer = LinearScan(timestamp, intervals)

\* two overlapping intervals with the same start; the point lies in the
\* second only
C6_Witness ==
    /\ pc = "lookup_queried"
    /\ Len(intervals) = 2
    /\ intervals[1].start = intervals[2].start
    /\ intervals[1].end < intervals[2].end
    /\ timestamp = intervals[2].end
    /\ answer = TRUE

(* C7 as stated: for every lookup and every interval stored in it, the     *)
(* answer is true at t = start and at t = end, and false at start - 1 and  *)
(* at end + 1.                                                             *)
C7_BoundariesAnyLookup ==
    LookupBuilt =>
        \A k \in 1..Len(intervals) :
            /\ is_subtitle_timestamp(intervals[k].start, lookup)
            /\ is_subtitle_timestamp(intervals[k].end, lookup)
            /\ ~is_subtitle_timestamp(intervals[k].start - 1, lookup)
            /\ ~is_subtitle_timestamp(intervals[k].end + 1, lookup)

(* C7 amended: for every lookup built from a list sorted by start in which *)
(* no interval ends after a later one ends, and every interval stored in   *)
(* it, the answer is true at t = start and at t = end; at start - 1 and at *)
(* end + 1 it is false unless that point lies inside another interval of   *)
(* the list, and then it is true.                                          *)
C7_BoundariesSortedLookup ==
    (LookupBuilt /\ SortedByStart(intervals) /\ EndsAscending(intervals)) =>
        \A k \in 1..Len(intervals) :
            LET below == intervals[k].start - 1
                above == intervals[k].end + 1
            IN  /\ is_subtitle_timestamp(intervals[k].start, lookup)
                /\ is_subtitle_timestamp(intervals[k].end, lookup)
                /\ is_subtitle_timestamp(below, lookup) = LinearScan(below, intervals)
                /\ is_subtitle_timestamp(above, lookup) = LinearScan(above, intervals)

\* the lookup was asked one unit above the end of its first interval, a
\* point in the gap before the second
C7_Witness ==
    /\ pc = "lookup_queried"
    /\ Len(intervals) = 2
    /\ SortedByStart(intervals)
    /\ intervals[1].end + 1 < intervals[2].start
    /\ timestamp = intervals[1].end + 1
    /\ answer = FALSE

(* C8: for every Metrics value with non-negative counters, as read by      *)
(* print_report: accuracy and error_rate are None iff evaluated_frames =   *)
(* 0; precision is None iff TP + FP = 0; recall is None iff TP + FN = 0;   *)
(* f1 is None iff precision is None or recall is None or precision +       *)
(* recall = 0; a ratio that is not None is a number.  The Metrics of an    *)
(* empty detection list has all five None; the Metrics of a single false   *)
(* positive has precision 0 (not None) and recall None.                    *)
C8_UndefinedRatios ==
    pc = "reported" =>
        LET tp == metrics.true_positive
            fp == metrics.false_positive
            fn == metrics.false_negative
            wasReturned == [metrics EXCEPT !.skipped_frames = 0]
        IN  /\ report.accuracy.defined <=> metrics.evaluated_frames # 0
            /\ report.error_rate.defined <=> metrics.evaluated_frames # 0
            /\ report.precision.defined <=> tp + fp # 0
            /\ report.recall.defined <=> tp + fn # 0
            /\ report.f1.defined <=>
                  /\ report.precision.defined
                  /\ report.recall.defined
                  /\ tp * (tp + fn) + tp * (tp + fp) # 0
            /\ \A r \in {"accuracy", "error_rate", "precision", "recall", "f1"} :
                  report[r].defined => report[r].den > 0
            /\ wasReturned = evaluate(<<>>, <<>>)
                  => \A r \in {"accuracy", "error_rate", "precision", "recall", "f1"} :
                        report[r] = None
            /\ wasReturned = evaluate(<<Detection(1, TRUE)>>, <<SubtitleInterval(0, 0)>>)
                  => /\ report.precision.defined
                     /\ report.precision.num = 0
                     /\ report.precision # None
                     /\ report.recall = None

\* the single false positive, reported
C8_Witness ==
    /\ pc = "reported"
    /\ metrics.evaluated_frames = 1
    /\ metrics.false_positive = 1
    /\ metrics.true_positive = 0
    /\ metrics.false_negative = 0
    /\ report.precision = Value(0, 1)
    /\ report.recall = None

(* C9: the Metrics returned by evaluate are the same for every reordering  *)
(* of the detections, and equal the field-wise sum of the Metrics of two   *)
(* independent evaluations of the two sub-sequences of any split of the    *)
(* detections.                                                             *)
C9_OrderAndSplitInvariant ==
    pc = "returned" =>
        /\ \A ds \in Orders(detections) : evaluate(ds, intervals) = metrics
        /\ \A keep \in [1..Len(detections) -> BOOLEAN] :
              AddMetrics(evaluate(Pick(detections, keep, TRUE), intervals),
                         evaluate(Pick(detections, keep, FALSE), intervals)) = metrics

C9_Witness ==
    /\ pc = "returned"
    /\ Len(detections) = 2
    /\ metrics.true_positive = 1
    /\ metrics.true_negative = 1

(* C10: a Metrics object is read-only from the moment evaluate returns it: *)
(* no later step, print_report in particular, changes any of its eight     *)
(* counters.                                                               *)
C10_ReadOnlyAfterReturn ==
    [][Returned => metrics' = metrics]_vars

===========================================================================
